---- MODULE Spec2Model ----
(***************************************************************************)
(* Verification model of the optical_flow_lk crate:                        *)
(*   build_pyramid            (src/src/pyramid.rs)                         *)
(*   box_filter_3x3_in_place  (src/src/utils/box_filter_3x3.rs)            *)
(*   compute_gradients        (src/src/utils/fast_gradients.rs)            *)
(*   good_features_to_track   (src/src/features.rs)                        *)
(*   calc_optical_flow        (src/src/lk.rs)                              *)
(*                                                                         *)
(* Every entry point is a straight-line program over its own inputs, so    *)
(* each one gets its own specification (SpecPyr, SpecBox, SpecFeat,        *)
(* SpecLK) over the shared variables; the variables an entry point does    *)
(* not use stay at Unused.  pc is the position inside the running entry    *)
(* point; the "panic_.." positions are Rust panics (a failed assertion, an  *)
(* out-of-bounds get_pixel, a division by zero).                           *)
(*                                                                         *)
(* An ImageBuffer is a record [width, height, data] with data the          *)
(* row-major sample vector, as in the image crate.                         *)
(***************************************************************************)
EXTENDS Integers, Sequences, FiniteSets, TLC

VARIABLES
    pc,             \* position in the running entry point
    image,          \* the raster argument (build_pyramid, good_features_to_track, box filter)
    \* build_pyramid
    levels,         \* requested level count
    pyramid,        \* the Vec<GrayImage> under construction
    level,          \* loop variable `level` (also of calc_optical_flow)
    \* box_filter_3x3_in_place
    raster,         \* the &mut ImageBuffer<Luma<i16>> filtered in place
    \* good_features_to_track
    quality_level,  \* f32 argument, a dyadic rational [num, den]
    min_distance,   \* u32 argument
    gx, gy,         \* gradient rasters
    ix_sq, iy_sq, ix_iy,    \* gradient products, smoothed in place
    features,       \* Vec<(u32, u32, f32)>
    grid,           \* filter_by_distance: occupancy grid
    idx,            \* filter_by_distance: position in `for &(x, y, q) in features`
    result,         \* filter_by_distance: accepted points (also calc_optical_flow's returned Vec)
    \* calc_optical_flow
    prev_pyramid, curr_pyramid,     \* &[GrayImage] arguments
    prev_points,    \* &[(f32, f32)] argument, fixed point (see Unit)
    window_size,    \* usize argument
    max_iterations, \* usize argument
    displacements,  \* Vec<(f32, f32)>, fixed point
    grad_x, grad_y, \* gradients of the previous frame at the current level
    point,          \* position in `for ((prev_x, prev_y), disp) in ..`, 1-based
    lk_dx, lk_dy,   \* `dx`, `dy`: displacement of the current point at the current level
    iteration,      \* iterations of `for _ in 0..max_iterations` done
    converged       \* the `converged` flag

pyrVars == <<levels, pyramid>>
boxVars == <<raster>>
featVars == <<quality_level, min_distance, gx, gy, ix_sq, iy_sq, ix_iy, features, grid, idx, result>>
lkVars == <<prev_pyramid, curr_pyramid, prev_points, window_size, max_iterations,
            displacements, grad_x, grad_y, point, lk_dx, lk_dy, iteration, converged>>
vars == <<pc, image, level, pyrVars, boxVars, featVars, lkVars>>

Unused == "unused"

\* the positions of a panicked call
PanicStates == {"panic_assert", "panic_bounds", "panic_div_zero"}

\* the variables of calc_optical_flow in the other entry points
LkUnused ==
    /\ prev_pyramid = Unused /\ curr_pyramid = Unused /\ prev_points = Unused
    /\ window_size = Unused /\ max_iterations = Unused /\ displacements = Unused
    /\ grad_x = Unused /\ grad_y = Unused /\ point = Unused
    /\ lk_dx = Unused /\ lk_dy = Unused /\ iteration = Unused /\ converged = Unused

(***************************************************************************)
(* Bounds of the model.                                                    *)
(***************************************************************************)
MaxDim == 5         \* largest width / height of an input raster of build_pyramid
MaxLevels == 4      \* largest requested level count

(***************************************************************************)
(* Rasters.                                                                *)
(***************************************************************************)
\* ImageBuffer::new(w, h) with put_pixel(x, y, f[x, y]) for every pixel, row-major
MkImage(w, h, f) ==
    [width |-> w, height |-> h,
     data |-> [k \in 1..(w * h) |-> f[(k - 1) % w, (k - 1) \div w]]]

\* the pixel coordinates of a w x h raster
Coords(w, h) == (0..(w - 1)) \X (0..(h - 1))

\* the bounds check of get_pixel / get_pixel_checked
InImage(img, x, y) ==
    x >= 0 /\ y >= 0 /\ x < img.width /\ y < img.height

\* get_pixel(x, y)[0]; only evaluated where InImage holds
GetPixel(img, x, y) == img.data[y * img.width + x + 1]

\* 8-bit test rasters: seed 0 is the all-255 raster, the others are textured
Pattern(seed, x, y) == (255 + seed * (x * 85 + y * 57 + x * y * 31 + 3)) % 256

Seeds == {0, 1, 2, 5}

GrayImages(maxDim) ==
    { MkImage(w, h, [c \in Coords(w, h) |-> Pattern(s, c[1], c[2])]) :
        w \in 1..maxDim, h \in 1..maxDim, s \in Seeds }

(***************************************************************************)
(* build_pyramid                                                           *)
(***************************************************************************)
\* `if width < 2 || height < 2 { break; }`, negated
CanReduceBroken(width, height) == width >= 4 /\ height >= 4
CanReduce(width, height) == ~(width < 2 \/ height < 2)

\* `width / 2`, `height / 2` (u32 division)
HalfDimBroken(d) == (d + 1) \div 2
HalfDim(d) == d \div 2

\* `((pixel1 + pixel2 + pixel3 + pixel4) / 4) as u8`: the sum is taken in u32
\* (four u8 widened first, at most 1020, so it cannot wrap); `as u8` keeps
\* the low 8 bits of the quotient
AverageBroken(p1, p2, p3, p4) == ((p1 + p2 + p3 + p4) % 256) \div 4
Average(p1, p2, p3, p4) == ((p1 + p2 + p3 + p4) \div 4) % 256

\* the four get_pixel calls of one output pixel stay inside previous_level
SourcesInside(prev, x, y) ==
    /\ InImage(prev, 2 * x, 2 * y)
    /\ InImage(prev, 2 * x + 1, 2 * y)
    /\ InImage(prev, 2 * x, 2 * y + 1)
    /\ InImage(prev, 2 * x + 1, 2 * y + 1)

\* the body of the `for y .. for x ..` loops: the new level
Downsample(prev) ==
    LET new_width == HalfDim(prev.width)
        new_height == HalfDim(prev.height)
    IN MkImage(new_width, new_height,
               [c \in Coords(new_width, new_height) |->
                   LET px == 2 * c[1]
                       py == 2 * c[2]
                   IN Average(GetPixel(prev, px, py),
                              GetPixel(prev, px + 1, py),
                              GetPixel(prev, px, py + 1),
                              GetPixel(prev, px + 1, py + 1))])

\* get_pixel panics when a source coordinate is outside previous_level
DownsamplePanics(prev) ==
    \E x \in 0..(HalfDim(prev.width) - 1), y \in 0..(HalfDim(prev.height) - 1) :
        ~SourcesInside(prev, x, y)

InitPyr ==
    /\ pc = "start"
    /\ image \in GrayImages(MaxDim)
    /\ levels \in 0..MaxLevels
    /\ pyramid = <<>>
    /\ level = 0
    /\ raster = Unused
    /\ quality_level = Unused /\ min_distance = Unused
    /\ gx = Unused /\ gy = Unused
    /\ ix_sq = Unused /\ iy_sq = Unused /\ ix_iy = Unused
    /\ features = Unused /\ grid = Unused /\ idx = Unused /\ result = Unused
    /\ LkUnused

\* let mut pyramid = Vec::new(); pyramid.push(image.clone());
PyrClone ==
    /\ pc = "start"
    /\ pyramid' = <<image>>
    /\ level' = 1
    /\ pc' = "loop"
    /\ UNCHANGED <<image, levels, boxVars, featVars, lkVars>>

\* one iteration of `for level in 1..levels` that builds and pushes a level
PyrLevel ==
    /\ pc = "loop"
    /\ level < levels
    /\ LET previous_level == pyramid[level]      \* pyramid[level - 1], 0-based
       IN /\ CanReduce(previous_level.width, previous_level.height)
          /\ IF DownsamplePanics(previous_level)
                THEN /\ pc' = "panic_bounds"
                     /\ UNCHANGED <<pyramid, level>>
                ELSE /\ pyramid' = Append(pyramid, Downsample(previous_level))
                     /\ level' = level + 1
                     /\ pc' = "loop"
    /\ UNCHANGED <<image, levels, boxVars, featVars, lkVars>>

\* the early `break`
PyrBreak ==
    /\ pc = "loop"
    /\ level < levels
    /\ ~CanReduce(pyramid[level].width, pyramid[level].height)
    /\ pc' = "done"
    /\ UNCHANGED <<image, levels, pyramid, level, boxVars, featVars, lkVars>>

\* the range 1..levels is exhausted; `pyramid` is returned
PyrReturn ==
    /\ pc = "loop"
    /\ level >= levels
    /\ pc' = "done"
    /\ UNCHANGED <<image, levels, pyramid, level, boxVars, featVars, lkVars>>

NextPyr == PyrClone \/ PyrLevel \/ PyrBreak \/ PyrReturn

SpecPyr == InitPyr /\ [][NextPyr]_vars

\* the levels build_pyramid has returned
PyrDone == pc = "done" /\ levels >= 1

\* C4: for width, height >= 1 and L >= 1 build_pyramid returns between 1 and
\* L levels, level 0 is the input pixel for pixel, every next level has the
\* floor-halved width and height of its predecessor, and the result is
\* shorter than L only if its last level has width < 2 or height < 2; the
\* call never panics.
C4_PyramidShape ==
    /\ levels >= 1 => pc \notin PanicStates
    /\ PyrDone =>
        /\ Len(pyramid) >= 1
        /\ Len(pyramid) <= levels
        /\ pyramid[1] = image
        /\ \A i \in 1..(Len(pyramid) - 1) :
              /\ 2 * pyramid[i + 1].width <= pyramid[i].width
              /\ pyramid[i].width < 2 * pyramid[i + 1].width + 2
              /\ 2 * pyramid[i + 1].height <= pyramid[i].height
              /\ pyramid[i].height < 2 * pyramid[i + 1].height + 2
              /\ Len(pyramid[i + 1].data) = pyramid[i + 1].width * pyramid[i + 1].height
        /\ Len(pyramid) < levels =>
              (pyramid[Len(pyramid)].width < 2 \/ pyramid[Len(pyramid)].height < 2)

\* a three-level pyramid cut short of the requested four levels
C4_Witness ==
    /\ PyrDone
    /\ levels = 4
    /\ Len(pyramid) = 3
    /\ pyramid[1].width = 5
    /\ pyramid[3].width = 1

\* C5: every pixel (x, y) of level i+1 is floor((a + b + c + d) / 4) of the
\* level-i pixels at (2x,2y), (2x+1,2y), (2x,2y+1), (2x+1,2y+1); the four
\* coordinates lie inside level i (odd sizes included) and the value fits
\* in 8 bits.
C5_DownsampleMean ==
    \A i \in 1..(Len(pyramid) - 1) :
        \A x \in 0..(pyramid[i + 1].width - 1), y \in 0..(pyramid[i + 1].height - 1) :
            /\ 2 * x + 1 < pyramid[i].width
            /\ 2 * y + 1 < pyramid[i].height
            /\ LET s == pyramid[i].data[(2 * y) * pyramid[i].width + 2 * x + 1]
                       + pyramid[i].data[(2 * y) * pyramid[i].width + 2 * x + 2]
                       + pyramid[i].data[(2 * y + 1) * pyramid[i].width + 2 * x + 1]
                       + pyramid[i].data[(2 * y + 1) * pyramid[i].width + 2 * x + 2]
                   v == pyramid[i + 1].data[y * pyramid[i + 1].width + x + 1]
               IN /\ 4 * v <= s
                  /\ s < 4 * v + 4
                  /\ v \in 0..255

\* a level built from an odd-sized level whose 2x2 sums exceed 255 and are
\* not multiples of 4
C5_Witness ==
    /\ PyrDone
    /\ Len(pyramid) >= 2
    /\ pyramid[1].width = 5
    /\ pyramid[1].height = 3
    /\ \E k \in 1..2 :
          pyramid[1].data[2 * k - 1] + pyramid[1].data[2 * k]
          + pyramid[1].data[5 + 2 * k - 1] + pyramid[1].data[5 + 2 * k] > 255
    /\ \E k \in 1..2 :
          (pyramid[1].data[2 * k - 1] + pyramid[1].data[2 * k]
           + pyramid[1].data[5 + 2 * k - 1] + pyramid[1].data[5 + 2 * k]) % 4 # 0

(***************************************************************************)
(* box_filter_3x3_in_place                                                 *)
(***************************************************************************)
MaxBoxDim == 4      \* largest width / height of a raster filtered on its own

\* `v as i16`: two's-complement wrap to 16 bits
AsI16(v) == ((v + 32768) % 65536) - 32768

\* i32 `/`: the quotient truncated toward zero (b > 0)
TruncDiv(a, b) == IF a >= 0 THEN a \div b ELSE -((-a) \div b)

\* `(sum / count) as i16`
BoxMeanBroken(sum, count) == AsI16(TruncDiv(sum, 3))
BoxMean(sum, count) == AsI16(TruncDiv(sum, count))

\* One line (row or column) of a pass, `for x in 1..width`: `line` is the
\* line as it stands (positions before x already overwritten), x is 0-based.
\* The sample removed at x > 1 is read from the raster being written.
RECURSIVE BoxSlide(_, _, _, _)
BoxSlide(line, sum, count, x) ==
    IF x >= Len(line)
        THEN line
        ELSE LET sum1 == IF x > 1 THEN sum - line[x - 1] ELSE sum
                 count1 == IF x > 1 THEN count - 1 ELSE count
                 sum2 == IF x + 1 < Len(line) THEN sum1 + line[x + 2] ELSE sum1
                 count2 == IF x + 1 < Len(line) THEN count1 + 1 ELSE count1
             IN BoxSlide([line EXCEPT ![x + 1] = BoxMean(sum2, count2)], sum2, count2, x + 1)

\* the first sample of a line, then the sliding window; Len(line) >= 2
BoxLine(line) ==
    LET sum == IF Len(line) > 2 THEN line[1] + line[2] + line[3] ELSE line[1] + line[2]
        count == IF Len(line) > 2 THEN 3 ELSE 2
    IN BoxSlide([line EXCEPT ![1] = BoxMean(sum, count)], sum, count, 1)

\* the quotients `sum / count` of one line in i32, before `as i16`: the
\* same loop as BoxSlide, collecting what each position divides to
RECURSIVE BoxSlideQuotients(_, _, _, _, _)
BoxSlideQuotients(line, sum, count, x, quotients) ==
    IF x >= Len(line)
        THEN quotients
        ELSE LET sum1 == IF x > 1 THEN sum - line[x - 1] ELSE sum
                 count1 == IF x > 1 THEN count - 1 ELSE count
                 sum2 == IF x + 1 < Len(line) THEN sum1 + line[x + 2] ELSE sum1
                 count2 == IF x + 1 < Len(line) THEN count1 + 1 ELSE count1
             IN BoxSlideQuotients([line EXCEPT ![x + 1] = BoxMean(sum2, count2)],
                                  sum2, count2, x + 1,
                                  Append(quotients, TruncDiv(sum2, count2)))

BoxQuotients(line) ==
    LET sum == IF Len(line) > 2 THEN line[1] + line[2] + line[3] ELSE line[1] + line[2]
        count == IF Len(line) > 2 THEN 3 ELSE 2
    IN BoxSlideQuotients([line EXCEPT ![1] = BoxMean(sum, count)], sum, count, 1,
                         <<TruncDiv(sum, count)>>)

Row(img, y) == [x \in 1..img.width |-> img.data[y * img.width + x]]
Column(img, x) == [y \in 1..img.height |-> img.data[(y - 1) * img.width + x + 1]]

\* box_filter_horizontal_3x3_in_place; get_pixel(1, y) needs width >= 2
BoxHorizontal(img) ==
    LET rows == [y \in 0..(img.height - 1) |-> BoxLine(Row(img, y))]
    IN [img EXCEPT !.data = [k \in 1..(img.width * img.height) |->
                                rows[(k - 1) \div img.width][((k - 1) % img.width) + 1]]]

\* box_filter_vertical_3x3_in_place; get_pixel(x, 1) needs height >= 2
BoxVertical(img) ==
    LET cols == [x \in 0..(img.width - 1) |-> BoxLine(Column(img, x))]
    IN [img EXCEPT !.data = [k \in 1..(img.width * img.height) |->
                                cols[(k - 1) % img.width][((k - 1) \div img.width) + 1]]]

\* the out-of-bounds get_pixel of either pass
BoxPanics(img) == img.width < 2 \/ img.height < 2

BoxFilter3x3(img) == BoxVertical(BoxHorizontal(img))

\* signed 16-bit test rasters: uniform ones over the i16 range, and ramps
I16Values == {-32768, -32767, -5, -1, 0, 1, 2, 7, 32766, 32767}

ConstImage(w, h, v) == MkImage(w, h, [c \in Coords(w, h) |-> v])

I16Images(maxDim) ==
    { ConstImage(w, h, v) : w \in 1..maxDim, h \in 1..maxDim, v \in I16Values }
    \cup { MkImage(w, h, [c \in Coords(w, h) |-> AsI16(v + 9 * c[1] * c[1] - 4 * c[2])]) :
             w \in 1..maxDim, h \in 1..maxDim, v \in I16Values }

boxOther == <<level, pyrVars, featVars, lkVars>>

InitBox ==
    /\ pc = "start"
    /\ image \in I16Images(MaxBoxDim)
    /\ raster = image
    /\ levels = Unused /\ pyramid = Unused /\ level = Unused
    /\ quality_level = Unused /\ min_distance = Unused
    /\ gx = Unused /\ gy = Unused
    /\ ix_sq = Unused /\ iy_sq = Unused /\ ix_iy = Unused
    /\ features = Unused /\ grid = Unused /\ idx = Unused /\ result = Unused
    /\ LkUnused

\* box_filter_horizontal_3x3_in_place(image)
BoxHorizontalPass ==
    /\ pc = "start"
    /\ raster.width >= 2
    /\ raster' = BoxHorizontal(raster)
    /\ pc' = "horizontal"
    /\ UNCHANGED <<image, boxOther>>

\* box_filter_vertical_3x3_in_place(image)
BoxVerticalPass ==
    /\ pc = "horizontal"
    /\ raster.height >= 2
    /\ raster' = BoxVertical(raster)
    /\ pc' = "done"
    /\ UNCHANGED <<image, boxOther>>

\* get_pixel(1, y) on a raster one sample wide, get_pixel(x, 1) on one one sample high
BoxOutOfBounds ==
    /\ \/ pc = "start" /\ raster.width < 2 /\ raster.height >= 1
       \/ pc = "horizontal" /\ raster.height < 2
    /\ pc' = "panic_bounds"
    /\ UNCHANGED <<image, raster, boxOther>>

NextBox == BoxHorizontalPass \/ BoxVerticalPass \/ BoxOutOfBounds

SpecBox == InitBox /\ [][NextBox]_vars

IsUniform(img, v) == \A k \in 1..Len(img.data) : img.data[k] = v

\* C8: a raster of width, height >= 2 whose samples all hold the same i16
\* value v (positive, zero or negative) comes out of
\* box_filter_3x3_in_place with every sample still equal to v.
C8_ConstantInvariant ==
    \A v \in I16Values :
        (image.width >= 2 /\ image.height >= 2 /\ IsUniform(image, v)) =>
            /\ pc \notin PanicStates
            /\ IsUniform(raster, v)
            /\ raster.width = image.width /\ raster.height = image.height

\* a uniform negative raster with both truncated (2-sample) and full windows, filtered
C8_Witness ==
    /\ pc = "done"
    /\ image.width = 4 /\ image.height = 3
    /\ IsUniform(image, -32768)
    /\ IsUniform(raster, -32768)

\* the running sample count (the divisor) when position x (0-based) of a
\* line of len samples is written: 2 or 3 at x = 0, then one less for
\* x > 1 and one more for x + 1 < len
RECURSIVE BoxCount(_, _)
BoxCount(len, x) ==
    IF x = 0
        THEN (IF len > 2 THEN 3 ELSE 2)
        ELSE BoxCount(len, x - 1) - (IF x > 1 THEN 1 ELSE 0)
                                  + (IF x + 1 < len THEN 1 ELSE 0)

\* the truncated mean of the three samples of `line` around position p (1-based)
MeanOfThree(line, p) == AsI16(TruncDiv(line[p - 1] + line[p] + line[p + 1], 3))

\* C11: in each pass every position that is neither first nor last in its
\* row (column) receives the truncated mean of the three pre-pass samples at
\* p-1, p, p+1, and the divisor used there never exceeds 3.
C11_InteriorMeanOfThree ==
    /\ pc = "horizontal" =>
          \A y \in 0..(image.height - 1), x \in 1..(image.width - 2) :
              /\ GetPixel(raster, x, y) = MeanOfThree(Row(image, y), x + 1)
              /\ BoxCount(image.width, x) <= 3
    /\ pc = "done" =>
          \A x \in 0..(image.width - 1), y \in 1..(image.height - 2) :
              /\ GetPixel(raster, x, y) = MeanOfThree(Column(BoxHorizontal(image), x), y + 1)
              /\ BoxCount(image.height, y) <= 3

(***************************************************************************)
(* compute_gradients                                                       *)
(***************************************************************************)
\* imageproc::gradients::HORIZONTAL_SCHARR / VERTICAL_SCHARR, row-major 3x3
HORIZONTAL_SCHARR == <<-3, 0, 3, -10, 0, 10, -3, 0, 3>>
VERTICAL_SCHARR == <<-3, -10, -3, 0, 0, 0, 3, 10, 3>>

\* `for y in 1..height - 1`, `for x in 1..width - 1` (height, width >= 1)
InteriorRange(n) == 1..(n - 2)

\* the `for ky in 0..3 { for kx in 0..3 {..} }` accumulation, k = ky * 3 + kx
RECURSIVE KernelSum(_, _, _, _, _)
KernelSum(img, x, y, kernel, k) ==
    IF k = 9
        THEN 0
        ELSE GetPixel(img, x + (k % 3) - 1, y + (k \div 3) - 1) * kernel[k + 1]
             + KernelSum(img, x, y, kernel, k + 1)

\* one of the two rasters compute_gradients returns: `gx as i16` on the
\* interior, the ImageBuffer::new default 0 on the border
ComputeGradient(img, kernel) ==
    MkImage(img.width, img.height,
            [c \in Coords(img.width, img.height) |->
                IF c[1] \in InteriorRange(img.width) /\ c[2] \in InteriorRange(img.height)
                    THEN AsI16(KernelSum(img, c[1], c[2], kernel, 0))
                    ELSE 0])

(***************************************************************************)
(* good_features_to_track                                                  *)
(*                                                                         *)
(* A score `sqrt((trace - discriminant) as f32) / 2.0` is carried as its   *)
(* radicand r = trace - discriminant: the score is NaN exactly when r < 0, *)
(* and on r >= 0 (at most 2 * 127^2, exact in f32) sqrt(r) / 2 is strictly *)
(* increasing, so f32 comparisons of scores are comparisons of radicands.  *)
(***************************************************************************)
MaxMinDistance == 4     \* largest min_distance argument

IsNaN(r) == r < 0

\* f32 `a > b`, false when either side is NaN
ScoreGt(a, b) == ~IsNaN(a) /\ ~IsNaN(b) /\ a > b

\* `ix / 32 * (iy / 32)` as an integer, before it is stored in an i16
ScaledProductBroken(a, b) == TruncDiv(a, 32) * b
ScaledProduct(a, b) == TruncDiv(a, 32) * TruncDiv(b, 32)

\* compute_gradient_products: `ix / 32 * (iy / 32)` in i16
GradientProduct(ga, gb) ==
    [ga EXCEPT !.data = [k \in 1..Len(ga.data) |->
                            AsI16(ScaledProduct(ga.data[k], gb.data[k]))]]

\* compute_min_eigenvalues: one (x, y, score) per pixel, row-major
ComputeMinEigenvalues(a, b, c) ==
    [k \in 1..(a.width * a.height) |->
        LET a_val == a.data[k]
            b_val == b.data[k]
            c_val == c.data[k]
            trace == a_val + b_val
            discriminant == (a_val - b_val) * (a_val - b_val) + 4 * (c_val * c_val)
        IN <<(k - 1) % a.width, (k - 1) \div a.width, trace - discriminant>>]

\* `for y in 1..height - 1`, `for x in 1..width - 1` of non_maximum_suppression
NmsRangeBroken(n) == 0..(n - 1)
NmsRange(n) == 1..(n - 2)

\* is_local_max[y * width + x] after the loops (false where never assigned)
IsLocalMax(feats, width, height, x, y) ==
    /\ x \in NmsRange(width)
    /\ y \in NmsRange(height)
    /\ \A dx \in -1..1, dy \in -1..1 :
          \/ dx = 0 /\ dy = 0
          \/ x + dx < 0 \/ y + dy < 0 \/ x + dx >= width \/ y + dy >= height
          \/ ~ScoreGt(feats[(y + dy) * width + (x + dx) + 1][3],
                      feats[y * width + x + 1][3])

\* features.retain(|(x, y, _)| is_local_max[y * width + x])
NonMaximumSuppression(feats, width, height) ==
    SelectSeq(feats, LAMBDA f : IsLocalMax(feats, width, height, f[1], f[2]))

\* .fold(0.0f32, |a, b| a.max(b)): f32::max ignores a NaN operand, so the
\* fold yields the largest of 0.0 and the non-NaN scores
MaxQuality(feats) ==
    LET scores == {0} \cup {feats[k][3] : k \in {i \in 1..Len(feats) : ~IsNaN(feats[i][3])}}
    IN CHOOSE m \in scores : \A r \in scores : m >= r

\* `q >= quality_level * max_quality`, false for a NaN q:
\* sqrt(r)/2 >= (num/den) * sqrt(m)/2
QualityGeBroken(r, ql, m) ==
    \/ ql.num <= 0
    \/ r * ql.den * ql.den >= ql.num * ql.num * m
QualityGe(r, ql, m) ==
    /\ ~IsNaN(r)
    /\ \/ ql.num <= 0
       \/ r * ql.den * ql.den >= ql.num * ql.num * m

\* filter_by_quality
FilterByQuality(feats, ql) ==
    SelectSeq(feats, LAMBDA f : QualityGe(f[3], ql, MaxQuality(feats)))

\* |a, b| b.2.partial_cmp(&a.2).unwrap_or(Ordering::Equal)
SortCompare(a, b) ==
    IF IsNaN(a[3]) \/ IsNaN(b[3]) THEN "Equal"
    ELSE IF b[3] < a[3] THEN "Less"
    ELSE IF b[3] > a[3] THEN "Greater"
    ELSE "Equal"

\* features.sort_by(..) is a stable sort; it is run here as the insertion
\* sort the standard library uses on short slices, one element per step
\* (FeatSortStep): e moves left past every element it compares Less than
\* and stops behind the first one it does not.  On a comparator that is a
\* total preorder (no NaN) every stable sort returns this same list.
InsertTail(sorted, e) ==
    LET stops == {0} \cup {j \in 1..Len(sorted) : SortCompare(e, sorted[j]) # "Less"}
        j == CHOOSE m \in stops : \A n \in stops : m >= n
    IN SubSeq(sorted, 1, j) \o <<e>> \o SubSeq(sorted, j + 1, Len(sorted))

\* u32::div_ceil (b > 0)
DivCeil(a, b) == (a + b - 1) \div b

None == "None"

\* the `for dx in -1..=1 { for dy in -1..=1 {..} }` cell neighbourhood
CellOffsetsBroken == 0..0
CellOffsets == -1..1

\* too_close after the neighbourhood scan of candidate (x, y)
TooClose(g, grid_width, grid_height, x, y, d) ==
    \E dx \in CellOffsets, dy \in CellOffsets :
        LET check_x == (x \div d) + dx
            check_y == (y \div d) + dy
        IN /\ ~(check_x < 0 \/ check_y < 0 \/ check_x >= grid_width \/ check_y >= grid_height)
           /\ g[<<check_x, check_y>>] # None
           /\ LET p == g[<<check_x, check_y>>]
                  dist_sq == (x - p[1]) * (x - p[1]) + (y - p[2]) * (y - p[2])
              IN dist_sq < d * d

\* 8-bit test rasters of the detector: v at (3,4) and (4,4) where they
\* exist, 0 elsewhere (all 0 on the small sizes); and the textured rasters
BlobImage(w, h, v) ==
    MkImage(w, h, [c \in Coords(w, h) |-> IF c[2] = 4 /\ c[1] \in {3, 4} THEN v ELSE 0])

FeatSizes == {<<1, 3>>, <<3, 1>>, <<2, 2>>, <<2, 4>>, <<3, 3>>, <<4, 3>>, <<5, 5>>, <<6, 7>>, <<9, 9>>}

\* full-contrast edges in both directions: 255 right of x = 3 in the rows
\* 0..2, 0 in the rows 3..4, 255 below
EdgeImage(w, h) ==
    MkImage(w, h, [c \in Coords(w, h) |->
                      IF (c[2] <= 2 /\ c[1] >= 3) \/ c[2] >= 5 THEN 255 ELSE 0])

FeatImages ==
    { BlobImage(sz[1], sz[2], v) : sz \in FeatSizes, v \in {16, 255} }
    \cup { EdgeImage(6, 7) }
    \cup { MkImage(sz[1], sz[2], [c \in Coords(sz[1], sz[2]) |-> Pattern(s, c[1], c[2])]) :
             sz \in FeatSizes, s \in {1, 2} }

\* quality_level: -1, 0, 1/2, 1
QualityLevels ==
    {[num |-> -1, den |-> 1], [num |-> 0, den |-> 1], [num |-> 1, den |-> 2], [num |-> 1, den |-> 1]}

featOther == <<level, pyrVars, boxVars, lkVars>>

InitFeat ==
    /\ pc = "start"
    /\ image \in FeatImages
    /\ quality_level \in QualityLevels
    /\ min_distance \in 0..MaxMinDistance
    /\ gx = Unused /\ gy = Unused
    /\ ix_sq = Unused /\ iy_sq = Unused /\ ix_iy = Unused
    /\ features = Unused /\ grid = Unused /\ idx = Unused /\ result = Unused
    /\ levels = Unused /\ pyramid = Unused /\ level = Unused /\ raster = Unused
    /\ LkUnused

\* compute_gradients(image, &HORIZONTAL_SCHARR, &VERTICAL_SCHARR)
FeatGradients ==
    /\ pc = "start"
    /\ gx' = ComputeGradient(image, HORIZONTAL_SCHARR)
    /\ gy' = ComputeGradient(image, VERTICAL_SCHARR)
    /\ pc' = "gradients"
    /\ UNCHANGED <<image, quality_level, min_distance, ix_sq, iy_sq, ix_iy,
                   features, grid, idx, result, featOther>>

\* compute_gradient_products(&gx, &gy)
FeatProducts ==
    /\ pc = "gradients"
    /\ ix_sq' = GradientProduct(gx, gx)
    /\ iy_sq' = GradientProduct(gy, gy)
    /\ ix_iy' = GradientProduct(gx, gy)
    /\ pc' = "products"
    /\ UNCHANGED <<image, quality_level, min_distance, gx, gy,
                   features, grid, idx, result, featOther>>

\* the three box_filter_3x3_in_place calls; the first one panics on a raster
\* with a side below 2
FeatSmooth ==
    /\ pc = "products"
    /\ IF BoxPanics(ix_sq)
          THEN /\ pc' = "panic_bounds"
               /\ UNCHANGED <<ix_sq, iy_sq, ix_iy>>
          ELSE /\ ix_sq' = BoxFilter3x3(ix_sq)
               /\ iy_sq' = BoxFilter3x3(iy_sq)
               /\ ix_iy' = BoxFilter3x3(ix_iy)
               /\ pc' = "smoothed"
    /\ UNCHANGED <<image, quality_level, min_distance, gx, gy,
                   features, grid, idx, result, featOther>>

\* compute_min_eigenvalues(&ix_sq, &iy_sq, &ix_iy)
FeatEigen ==
    /\ pc = "smoothed"
    /\ features' = ComputeMinEigenvalues(ix_sq, iy_sq, ix_iy)
    /\ pc' = "scored"
    /\ UNCHANGED <<image, quality_level, min_distance, gx, gy, ix_sq, iy_sq, ix_iy,
                   grid, idx, result, featOther>>

\* non_maximum_suppression(&mut features, width, height)
FeatNms ==
    /\ pc = "scored"
    /\ features' = NonMaximumSuppression(features, image.width, image.height)
    /\ pc' = "suppressed"
    /\ UNCHANGED <<image, quality_level, min_distance, gx, gy, ix_sq, iy_sq, ix_iy,
                   grid, idx, result, featOther>>

\* filter_by_quality(&mut features, quality_level)
FeatQuality ==
    /\ pc = "suppressed"
    /\ features' = FilterByQuality(features, quality_level)
    /\ idx' = 1
    /\ pc' = "sorting"
    /\ UNCHANGED <<image, quality_level, min_distance, gx, gy, ix_sq, iy_sq, ix_iy,
                   grid, result, featOther>>

\* features.sort_by(..), one insertion: features[1..idx-1] is sorted and
\* features[idx] is inserted into it
FeatSortStep ==
    /\ pc = "sorting"
    /\ idx <= Len(features)
    /\ features' = InsertTail(SubSeq(features, 1, idx - 1), features[idx])
                      \o SubSeq(features, idx + 1, Len(features))
    /\ idx' = idx + 1
    /\ UNCHANGED <<pc, image, quality_level, min_distance, gx, gy, ix_sq, iy_sq, ix_iy,
                   grid, result, featOther>>

\* features.sort_by(..) returns
FeatSorted ==
    /\ pc = "sorting"
    /\ idx > Len(features)
    /\ pc' = "sorted"
    /\ UNCHANGED <<image, quality_level, min_distance, gx, gy, ix_sq, iy_sq, ix_iy,
                   features, grid, idx, result, featOther>>

\* what a guard `if min_distance == 0 { return features.to_vec(); }` would do
FeatGridBroken ==
    /\ pc = "sorted"
    /\ IF min_distance = 0
          THEN /\ pc' = "done"
               /\ result' = features
               /\ UNCHANGED <<grid, idx>>
          ELSE /\ grid' = [c \in Coords(DivCeil(image.width, min_distance),
                                        DivCeil(image.height, min_distance)) |-> None]
               /\ result' = <<>>
               /\ idx' = 1
               /\ pc' = "filtering"
    /\ UNCHANGED <<image, quality_level, min_distance, gx, gy, ix_sq, iy_sq, ix_iy,
                   features, featOther>>

\* filter_by_distance up to its loop: width.div_ceil(cell_size) divides by
\* zero when min_distance = 0
FeatGrid ==
    /\ pc = "sorted"
    /\ IF min_distance = 0
          THEN /\ pc' = "panic_div_zero"
               /\ UNCHANGED <<grid, idx, result>>
          ELSE /\ grid' = [c \in Coords(DivCeil(image.width, min_distance),
                                        DivCeil(image.height, min_distance)) |-> None]
               /\ result' = <<>>
               /\ idx' = 1
               /\ pc' = "filtering"
    /\ UNCHANGED <<image, quality_level, min_distance, gx, gy, ix_sq, iy_sq, ix_iy,
                   features, featOther>>

\* one iteration of `for &(x, y, q) in features`
FeatDistStep ==
    /\ pc = "filtering"
    /\ idx <= Len(features)
    /\ LET x == features[idx][1]
           y == features[idx][2]
           cell_size == min_distance
       IN IF TooClose(grid, DivCeil(image.width, cell_size), DivCeil(image.height, cell_size),
                      x, y, min_distance)
             THEN UNCHANGED <<grid, result>>
             ELSE /\ grid' = [grid EXCEPT ![<<x \div cell_size, y \div cell_size>>] = <<x, y>>]
                  /\ result' = Append(result, features[idx])
    /\ idx' = idx + 1
    /\ UNCHANGED <<pc, image, quality_level, min_distance, gx, gy, ix_sq, iy_sq, ix_iy,
                   features, featOther>>

\* the loop is over: `result` is returned
FeatReturn ==
    /\ pc = "filtering"
    /\ idx > Len(features)
    /\ pc' = "done"
    /\ UNCHANGED <<image, quality_level, min_distance, gx, gy, ix_sq, iy_sq, ix_iy,
                   features, grid, idx, result, featOther>>

NextFeat ==
    \/ FeatGradients \/ FeatProducts \/ FeatSmooth \/ FeatEigen \/ FeatNms
    \/ FeatQuality \/ FeatSortStep \/ FeatSorted \/ FeatGrid \/ FeatDistStep \/ FeatReturn

SpecFeat == InitFeat /\ [][NextFeat]_vars

\* result holds (a prefix of) the returned list
FeatSelecting == pc \in {"filtering", "done"}

DistSq(p, q) == (p[1] - q[1]) * (p[1] - q[1]) + (p[2] - q[2]) * (p[2] - q[2])

CellOf(p) == <<p[1] \div min_distance, p[2] \div min_distance>>

\* C2 as stated: any two distinct returned points are at Euclidean distance
\* >= min_distance from each other.
C2_AllPairsSpaced ==
    pc = "done" =>
        \A i \in 1..Len(result), j \in 1..Len(result) :
            i < j => DistSq(result[i], result[j]) >= min_distance * min_distance

\* C2, amended: two returned points are closer than min_distance only if,
\* between their acceptances, another point was accepted in the earlier
\* point's grid cell (replacing it in the occupancy grid); a cell of side
\* min_distance <= 3 cannot hold two accepted points, so there the spacing
\* is exact.
C2_SpacedUnlessOverwritten ==
    FeatSelecting =>
        \A i \in 1..Len(result), j \in 1..Len(result) :
            (i < j /\ DistSq(result[i], result[j]) < min_distance * min_distance) =>
                /\ min_distance > 3
                /\ \E k \in (i + 1)..(j - 1) : CellOf(result[k]) = CellOf(result[i])

\* a returned list of at least four points, two of them closer than
\* min_distance
C2_Witness ==
    /\ pc = "done"
    /\ Len(result) >= 4
    /\ \E i \in 1..Len(result), j \in 1..Len(result) :
          i < j /\ DistSq(result[i], result[j]) < min_distance * min_distance

\* C3: the returned list is quality-non-increasing as a numeric comparison
\* (no NaN score in it), also when pixels with a negative trace - D, whose
\* score is NaN, passed non-maximum suppression.
C3_QualityOrder ==
    FeatSelecting =>
        /\ \A i \in 1..Len(result) : ~IsNaN(result[i][3])
        /\ \A i \in 1..(Len(result) - 1) : result[i][3] >= result[i + 1][3]

\* NaN-scored pixels survived non-maximum suppression and the returned list
\* has several distinct qualities
C3_Witness ==
    /\ pc = "done"
    /\ Len(result) >= 3
    /\ result[1][3] > result[2][3]
    /\ result[2][3] > result[Len(result)][3]
    /\ LET survivors == NonMaximumSuppression(ComputeMinEigenvalues(ix_sq, iy_sq, ix_iy),
                                              image.width, image.height)
       IN \E k \in 1..Len(survivors) : IsNaN(survivors[k][3])

\* C7: for width, height >= 2 no returned point lies in row or column 0 or
\* in the last row or column.
C7_NoBorderPoint ==
    FeatSelecting =>
        \A i \in 1..Len(result) :
            /\ result[i][1] > 0 /\ result[i][1] < image.width - 1
            /\ result[i][2] > 0 /\ result[i][2] < image.height - 1

\* points were returned although the corner pixel (0, 0) scored at least as
\* high as the best of them
C7_Witness ==
    /\ pc = "done"
    /\ Len(result) >= 2
    /\ LET scores == ComputeMinEigenvalues(ix_sq, iy_sq, ix_iy)
       IN ~IsNaN(scores[1][3]) /\ scores[1][3] >= result[1][3]

\* C10 as stated: with min_distance = 0 the call returns every point that
\* survived suppression and the threshold, in descending-quality order.
C10_ZeroDistanceKeepsAll ==
    (min_distance = 0 /\ image.width >= 2 /\ image.height >= 2
        /\ pc \in PanicStates \cup {"done"}) =>
        (pc = "done" /\ result = features)

\* C10, amended: with min_distance = 0 the call never returns: on a raster
\* with both sides >= 2 it panics with a division by zero in
\* filter_by_distance (width.div_ceil(0)) once the candidates are sorted,
\* before the grid is built or any point is accepted.
C10_ZeroDistancePanics ==
    min_distance = 0 =>
        /\ ~FeatSelecting
        /\ (image.width >= 2 /\ image.height >= 2) => pc # "panic_bounds"
        /\ pc = "panic_div_zero" => (grid = Unused /\ result = Unused)

\* the division by zero, with sorted candidates at hand
C10_Witness ==
    /\ min_distance = 0
    /\ pc = "panic_div_zero"
    /\ Len(features) >= 2
    /\ features[1][3] > features[2][3]

\* the ranges of i16 and i32
FitsI16(v) == v >= -32768 /\ v <= 32767
FitsI32(v) == v >= -2147483647 - 1 /\ v <= 2147483647

\* every quotient of both box filter passes over the product raster p fits i16
BoxFitsI16(p) ==
    LET horizontal == BoxHorizontal(p)
    IN /\ \A y \in 0..(p.height - 1) :
             LET quotients == BoxQuotients(Row(p, y))
             IN \A k \in 1..Len(quotients) : FitsI16(quotients[k])
       /\ \A x \in 0..(p.width - 1) :
             LET quotients == BoxQuotients(Column(horizontal, x))
             IN \A k \in 1..Len(quotients) : FitsI16(quotients[k])

\* trace, (a - b)^2, 4 c^2, their sum D and trace - D all fit i32; the
\* squares are bounded through their roots (46340^2 <= 2^31 - 1 < 46341^2,
\* 4 * 23170^2 <= 2^31 - 1 < 4 * 23171^2) and the sums through their terms
EigenFitsI32(a, b, c) ==
    /\ FitsI32(a + b)
    /\ (a - b) <= 46340 /\ (b - a) <= 46340
    /\ c <= 23170 /\ -c <= 23170
    /\ (a - b) * (a - b) <= 2147483647 - 4 * (c * c)
    /\ \/ a + b >= 0
       \/ (a - b) * (a - b) + 4 * (c * c) <= (2147483647 + (a + b)) + 1

\* C12: on an 8-bit raster with the Scharr kernels no integer step of the
\* detector leaves its type: each gradient sum fits i16 before `as i16`,
\* each product (g/32)*(g/32) fits i16, each quotient the box filter writes
\* fits i16, and trace, D (with its two terms) and trace - D fit i32.
C12_NoOverflow ==
    /\ pc = "gradients" =>
          \A x \in InteriorRange(image.width), y \in InteriorRange(image.height) :
              /\ FitsI16(KernelSum(image, x, y, HORIZONTAL_SCHARR, 0))
              /\ FitsI16(KernelSum(image, x, y, VERTICAL_SCHARR, 0))
    /\ pc = "products" =>
          \A k \in 1..Len(gx.data) :
              /\ FitsI16(ScaledProduct(gx.data[k], gx.data[k]))
              /\ FitsI16(ScaledProduct(gy.data[k], gy.data[k]))
              /\ FitsI16(ScaledProduct(gx.data[k], gy.data[k]))
    /\ pc = "smoothed" =>
          /\ BoxFitsI16(GradientProduct(gx, gx))
          /\ BoxFitsI16(GradientProduct(gy, gy))
          /\ BoxFitsI16(GradientProduct(gx, gy))
    /\ pc = "scored" =>
          \A k \in 1..Len(ix_sq.data) :
              EigenFitsI32(ix_sq.data[k], iy_sq.data[k], ix_iy.data[k])

\* a raster with full-contrast edges, scored: gradients of +4080 and -4080
\* (the extremes 255 * 16 allows), a product of 127 * 127, a negative
\* mixed product, a large smoothed product and a pixel whose trace - D is
\* far below zero
C12_Witness ==
    /\ pc = "scored"
    /\ \E k \in 1..Len(gx.data) : gx.data[k] = 4080 /\ ScaledProduct(gx.data[k], gx.data[k]) = 16129
    /\ \E k \in 1..Len(gy.data) : gy.data[k] = -4080
    /\ \E k \in 1..Len(gx.data) : ScaledProduct(gx.data[k], gy.data[k]) < 0
    /\ \E k \in 1..Len(iy_sq.data) : iy_sq.data[k] >= 9000
    /\ \E k \in 1..Len(features) : features[k][3] < -1000000

(***************************************************************************)
(* calc_optical_flow                                                       *)
(*                                                                         *)
(* f32 coordinates and displacements are fixed-point integers counting     *)
(* 1/Unit pixel.  Seeds are whole pixels, so dividing by scale = 2^level   *)
(* is exact for the pyramid lengths used (as it is in f32), and bilinear   *)
(* samples are exact integers counting 1/Unit^2.  The f32 SVD solve has no *)
(* integer counterpart: its result is any of CorrectionPairs, except that  *)
(* a zero right-hand side A^T b gives the zero solution (see Solve).       *)
(***************************************************************************)
Unit == 4
MaxPyrLen == 2      \* longest pyramid passed to calc_optical_flow
MaxIterations == 2  \* largest max_iterations argument

\* `let epsilon = 1e-3`
EpsilonNum == 1
EpsilonDen == 1000

Abs(v) == IF v < 0 THEN -v ELSE v

\* 2f32.powi(level as i32)
Scale(lvl) == 2 ^ lvl

\* in_bounds(img, x, y, radius)
InBoundsBroken(img, x, y, radius) ==
    /\ x >= radius * Unit /\ x <= (img.width - radius) * Unit
    /\ y >= radius * Unit /\ y <= (img.height - radius) * Unit
InBounds(img, x, y, radius) ==
    /\ x >= radius * Unit /\ x < (img.width - radius) * Unit
    /\ y >= radius * Unit /\ y < (img.height - radius) * Unit

\* get_pixel_checked(sx as u32, sy as u32).map(..).unwrap_or(0.0)
PixelOrZero(img, sx, sy) == IF InImage(img, sx, sy) THEN GetPixel(img, sx, sy) ELSE 0

\* interpolate / interpolate_alt: the bilinear sample at (x, y), counting 1/Unit^2
Interpolate(img, x, y) ==
    LET x0 == x \div Unit
        y0 == y \div Unit
        x1 == x0 + 1
        y1 == y0 + 1
        fx == x - x0 * Unit
        fy == y - y0 * Unit
    IN PixelOrZero(img, x0, y0) * (Unit - fx) * (Unit - fy)
       + PixelOrZero(img, x0, y1) * (Unit - fx) * fy
       + PixelOrZero(img, x1, y0) * fx * (Unit - fy)
       + PixelOrZero(img, x1, y1) * fx * fy

\* the window offsets (i, j) in the order of the `for j .. for i ..` loops
WindowOffsets(radius) ==
    [k \in 1..((2 * radius + 1) * (2 * radius + 1)) |->
        <<((k - 1) % (2 * radius + 1)) - radius, ((k - 1) \div (2 * radius + 1)) - radius>>]

\* b_data: px_prev - px_curr per window pixel, counting 1/Unit^2
ResidualBroken(prev_img, curr_img, x, y, curr_x, curr_y, radius) ==
    [k \in DOMAIN WindowOffsets(radius) |->
        Interpolate(prev_img, x + WindowOffsets(radius)[k][1] * Unit,
                    y + WindowOffsets(radius)[k][2] * Unit)
        - Interpolate(curr_img, curr_x + (WindowOffsets(radius)[k][1] + 1) * Unit,
                      curr_y + WindowOffsets(radius)[k][2] * Unit)]
Residual(prev_img, curr_img, x, y, curr_x, curr_y, radius) ==
    [k \in DOMAIN WindowOffsets(radius) |->
        Interpolate(prev_img, x + WindowOffsets(radius)[k][1] * Unit,
                    y + WindowOffsets(radius)[k][2] * Unit)
        - Interpolate(curr_img, curr_x + WindowOffsets(radius)[k][1] * Unit,
                      curr_y + WindowOffsets(radius)[k][2] * Unit)]

\* one column of a_data: the gradient samples `/ 32.0`, counting 1/(32 Unit^2)
DesignColumn(grad, x, y, radius) ==
    [k \in DOMAIN WindowOffsets(radius) |->
        Interpolate(grad, x + WindowOffsets(radius)[k][1] * Unit,
                    y + WindowOffsets(radius)[k][2] * Unit)]

RECURSIVE Dot(_, _, _)
Dot(u, v, k) == IF k = 0 THEN 0 ELSE u[k] * v[k] + Dot(u, v, k - 1)

\* a_matrix.transpose() * &a_matrix, as <<a00, a01, a11>>
NormalMatrix(ix, iy) == <<Dot(ix, ix, Len(ix)), Dot(ix, iy, Len(ix)), Dot(iy, iy, Len(ix))>>

\* a_matrix.transpose() * &b_vector
NormalVector(ix, iy, b) == <<Dot(ix, b, Len(ix)), Dot(iy, b, Len(ix))>>

\* the corrections a non-zero system may yield: below epsilon, a whole
\* pixel, fractions of a pixel
CorrectionPairs == {<<0, 0>>, <<Unit, 0>>, <<-1, 2>>}

\* SVD::new(ata, true, true).solve(&atb, 1e-6): U and V^T are computed, so
\* the result is Ok(V S^+ U^T atb), which is zero when atb is zero (and when
\* ata is zero, every singular value then being below the tolerance)
Solve(ata, atb) ==
    IF atb = <<0, 0>> \/ ata = <<0, 0, 0>> THEN {<<0, 0>>} ELSE CorrectionPairs

\* `ddx.abs() < epsilon && ddy.abs() < epsilon`
BelowEpsilon(ddx, ddy) ==
    /\ Abs(ddx) * EpsilonDen < EpsilonNum * Unit
    /\ Abs(ddy) * EpsilonDen < EpsilonNum * Unit

\* `assert_eq!(prev_pyramid.len(), curr_pyramid.len())` and
\* `assert!(window_size % 2 == 1)` both pass
AssertionsHoldBroken(prev, curr, window) == Len(prev) = Len(curr) /\ window >= 1
AssertionsHold(prev, curr, window) == Len(prev) = Len(curr) /\ window % 2 = 1

\* test pyramids: the first n levels build_pyramid makes of img (none for n = 0)
RECURSIVE PyramidOf(_, _)
PyramidOf(img, n) ==
    IF n = 0 THEN <<>>
    ELSE IF n = 1 \/ ~CanReduce(img.width, img.height) THEN <<img>>
    ELSE <<img>> \o PyramidOf(Downsample(img), n - 1)

\* low-contrast textured rasters; shift moves the texture one pixel left
LkTexture(w, h, shift) ==
    MkImage(w, h, [c \in Coords(w, h) |->
                      ((c[1] + shift) * 7 + c[2] * c[2] * 5 + (c[1] + shift) * c[2] * 3) % 17])

LkImages == {LkTexture(6, 6, 0), LkTexture(6, 6, 1), LkTexture(3, 4, 0)}

LkPyramids == {PyramidOf(img, n) : img \in LkImages, n \in 0..MaxPyrLen}

\* a seed at whole-pixel coordinates
Seed(x, y) == <<x * Unit, y * Unit>>

SeedLists ==
    { <<>>,
      <<Seed(2, 2)>>,
      <<Seed(-1, 2), Seed(4, 3)>>,
      <<Seed(7, 1), Seed(2, 2), Seed(5, 3)>> }

WindowSizes == {0, 1, 2, 3}

lkOther == <<image, pyrVars, boxVars, quality_level, min_distance,
             gx, gy, ix_sq, iy_sq, ix_iy, features, grid, idx>>

InitLK ==
    /\ pc = "start"
    /\ prev_pyramid \in LkPyramids
    /\ curr_pyramid \in LkPyramids
    /\ prev_points \in SeedLists
    /\ window_size \in WindowSizes
    /\ max_iterations \in 0..MaxIterations
    /\ displacements = Unused /\ grad_x = Unused /\ grad_y = Unused
    /\ point = Unused /\ lk_dx = Unused /\ lk_dy = Unused
    /\ iteration = Unused /\ converged = Unused
    /\ level = Unused /\ result = Unused
    /\ image = Unused /\ levels = Unused /\ pyramid = Unused /\ raster = Unused
    /\ quality_level = Unused /\ min_distance = Unused
    /\ gx = Unused /\ gy = Unused
    /\ ix_sq = Unused /\ iy_sq = Unused /\ ix_iy = Unused
    /\ features = Unused /\ grid = Unused /\ idx = Unused

\* `let radius = window_size / 2`
Radius == window_size \div 2

\* the current point in the current level's frame: `*prev_x / scale`
LevelX == prev_points[point][1] \div Scale(level)
LevelY == prev_points[point][2] \div Scale(level)

\* the two assertions
LKAssert ==
    /\ pc = "start"
    /\ pc' = IF AssertionsHold(prev_pyramid, curr_pyramid, window_size)
                THEN "checked" ELSE "panic_assert"
    /\ UNCHANGED <<level, result, lkVars, lkOther>>

\* n_levels, radius, epsilon and the zero displacements
LKInit ==
    /\ pc = "checked"
    /\ displacements' = [i \in 1..Len(prev_points) |-> <<0, 0>>]
    /\ level' = Len(prev_pyramid)
    /\ pc' = "levels"
    /\ UNCHANGED <<result, prev_pyramid, curr_pyramid, prev_points, window_size, max_iterations,
                   grad_x, grad_y, point, lk_dx, lk_dy, iteration, converged, lkOther>>

\* the head of one iteration of `for level in (0..n_levels).rev()`:
\* the gradients of prev_pyramid[level]
LKLevel ==
    /\ pc = "levels"
    /\ level >= 1
    /\ level' = level - 1
    /\ grad_x' = ComputeGradient(prev_pyramid[level], HORIZONTAL_SCHARR)
    /\ grad_y' = ComputeGradient(prev_pyramid[level], VERTICAL_SCHARR)
    /\ point' = 1
    /\ pc' = "points"
    /\ UNCHANGED <<result, prev_pyramid, curr_pyramid, prev_points, window_size, max_iterations,
                   displacements, lk_dx, lk_dy, iteration, converged, lkOther>>

\* a point whose window leaves prev_img: `continue`
LKSkip ==
    /\ pc = "points"
    /\ point <= Len(prev_points)
    /\ ~InBounds(prev_pyramid[level + 1], LevelX, LevelY, Radius)
    /\ point' = point + 1
    /\ UNCHANGED <<pc, level, result, prev_pyramid, curr_pyramid, prev_points, window_size,
                   max_iterations, displacements, grad_x, grad_y, lk_dx, lk_dy,
                   iteration, converged, lkOther>>

\* a point whose window fits: dx, dy inherited, the refinement loop entered
LKEnter ==
    /\ pc = "points"
    /\ point <= Len(prev_points)
    /\ InBounds(prev_pyramid[level + 1], LevelX, LevelY, Radius)
    /\ lk_dx' = displacements[point][1] \div Scale(level)
    /\ lk_dy' = displacements[point][2] \div Scale(level)
    /\ iteration' = 0
    /\ converged' = FALSE
    /\ pc' = "refining"
    /\ UNCHANGED <<level, result, prev_pyramid, curr_pyramid, prev_points, window_size,
                   max_iterations, displacements, grad_x, grad_y, point, lkOther>>

\* the refinement loop goes on: not converged, iterations left, window inside curr_img
Refining ==
    /\ iteration < max_iterations
    /\ ~converged
    /\ InBounds(curr_pyramid[level + 1], LevelX + lk_dx, LevelY + lk_dy, Radius)

\* one iteration of `for _ in 0..max_iterations`
LKIterate ==
    /\ pc = "refining"
    /\ Refining
    /\ LET prev_img == prev_pyramid[level + 1]
           curr_img == curr_pyramid[level + 1]
           b == Residual(prev_img, curr_img, LevelX, LevelY,
                         LevelX + lk_dx, LevelY + lk_dy, Radius)
           ix == DesignColumn(grad_x, LevelX, LevelY, Radius)
           iy == DesignColumn(grad_y, LevelX, LevelY, Radius)
       IN \E solution \in Solve(NormalMatrix(ix, iy), NormalVector(ix, iy, b)) :
             /\ lk_dx' = lk_dx + solution[1]
             /\ lk_dy' = lk_dy + solution[2]
             /\ converged' = BelowEpsilon(solution[1], solution[2])
    /\ iteration' = iteration + 1
    /\ UNCHANGED <<pc, level, result, prev_pyramid, curr_pyramid, prev_points, window_size,
                   max_iterations, displacements, grad_x, grad_y, point, lkOther>>

\* the loop is left: `*disp = (dx * scale, dy * scale)`
LKStore ==
    /\ pc = "refining"
    /\ ~Refining
    /\ displacements' = [displacements EXCEPT
                            ![point] = <<lk_dx * Scale(level), lk_dy * Scale(level)>>]
    /\ point' = point + 1
    /\ pc' = "points"
    /\ UNCHANGED <<level, result, prev_pyramid, curr_pyramid, prev_points, window_size,
                   max_iterations, grad_x, grad_y, lk_dx, lk_dy, iteration, converged, lkOther>>

\* every point of the level is done
LKLevelEnd ==
    /\ pc = "points"
    /\ point > Len(prev_points)
    /\ pc' = "levels"
    /\ UNCHANGED <<level, result, lkVars, lkOther>>

\* every level is done: the final positions
LKReturn ==
    /\ pc = "levels"
    /\ level = 0
    /\ result' = [i \in 1..Len(prev_points) |->
                     <<prev_points[i][1] + displacements[i][1],
                       prev_points[i][2] + displacements[i][2]>>]
    /\ pc' = "done"
    /\ UNCHANGED <<level, lkVars, lkOther>>

NextLK ==
    \/ LKAssert \/ LKInit \/ LKLevel \/ LKSkip \/ LKEnter
    \/ LKIterate \/ LKStore \/ LKLevelEnd \/ LKReturn

SpecLK == InitLK /\ [][NextLK]_vars

(***************************************************************************)
(* Properties of calc_optical_flow                                         *)
(***************************************************************************)
\* displacements has been initialised
LkTracking == pc \in {"levels", "points", "refining", "done"}

\* seed i's window fits inside prev_pyramid[lvl + 1] once the seed is
\* divided by 2^lvl (stated on the undivided coordinates)
WindowFits(i, lvl) ==
    /\ prev_points[i][1] >= Radius * Unit * Scale(lvl)
    /\ prev_points[i][1] < (prev_pyramid[lvl + 1].width - Radius) * Unit * Scale(lvl)
    /\ prev_points[i][2] >= Radius * Unit * Scale(lvl)
    /\ prev_points[i][2] < (prev_pyramid[lvl + 1].height - Radius) * Unit * Scale(lvl)

\* C1: with pyramids of equal length and an odd window_size the call does
\* not abort, and it returns one position per seed, in the seeds' order
\* (each is its seed plus that seed's displacement); a seed whose window
\* fits at no level of the previous pyramid comes back unchanged.
C1_OnePositionPerSeed ==
    /\ pc \in PanicStates =>
          (Len(prev_pyramid) # Len(curr_pyramid) \/ window_size % 2 # 1)
    /\ pc = "done" =>
          /\ Len(result) = Len(prev_points)
          /\ \A i \in 1..Len(prev_points) :
                /\ result[i] = <<prev_points[i][1] + displacements[i][1],
                                 prev_points[i][2] + displacements[i][2]>>
                /\ (\A lvl \in 0..(Len(prev_pyramid) - 1) : ~WindowFits(i, lvl))
                      => result[i] = prev_points[i]

\* three seeds tracked over two levels between different frames: the first
\* and third fit at no level and come back unchanged, the second has moved
C1_Witness ==
    /\ pc = "done"
    /\ Len(prev_pyramid) = 2
    /\ prev_pyramid # curr_pyramid
    /\ window_size = 3
    /\ Len(prev_points) = 3
    /\ \A lvl \in 0..1 : ~WindowFits(1, lvl) /\ ~WindowFits(3, lvl)
    /\ result[1] = prev_points[1]
    /\ result[3] = prev_points[3]
    /\ result[2] # prev_points[2]

\* C6: with identical pyramids every displacement stays below the
\* convergence epsilon in both components, and a refinement that has run
\* an iteration has stopped as converged with a zero correction.
C6_ZeroMotion ==
    (LkTracking /\ prev_pyramid = curr_pyramid) =>
        /\ \A i \in 1..Len(prev_points) :
              BelowEpsilon(displacements[i][1], displacements[i][2])
        /\ (pc = "refining" /\ iteration >= 1) =>
              (converged /\ BelowEpsilon(lk_dx, lk_dy))

\* a seed in the textured interior, refined at both levels of a pyramid
\* tracked against itself, ends with no displacement
C6_Witness ==
    /\ pc = "done"
    /\ prev_pyramid = curr_pyramid
    /\ Len(prev_pyramid) = 2
    /\ window_size = 3
    /\ max_iterations >= 1
    /\ prev_points = <<Seed(2, 2)>>
    /\ WindowFits(1, 0) /\ WindowFits(1, 1)
    /\ iteration = 1
    /\ converged
    /\ result = prev_points

\* C9: pyramids of different lengths, or an even window_size, abort the
\* call at its assertions: no displacement is initialised, no gradient is
\* computed and nothing is returned.
C9_RejectedBeforeWork ==
    (Len(prev_pyramid) # Len(curr_pyramid) \/ window_size % 2 = 0) =>
        /\ pc \in {"start", "panic_assert"}
        /\ displacements = Unused
        /\ grad_x = Unused
        /\ grad_y = Unused
        /\ result = Unused

\* equal-length pyramids, seeds to track, and a window of 2: aborted
C9_Witness ==
    /\ pc = "panic_assert"
    /\ Len(prev_pyramid) = Len(curr_pyramid)
    /\ Len(prev_pyramid) = 2
    /\ window_size = 2
    /\ Len(prev_points) = 3
    /\ displacements = Unused

====
